---- MODULE Spec2Model ----
(***************************************************************************)
(* Campaign Optimizer (campaign_optimizer_app_v4.py): the change-detection *)
(* pipeline calculate_changes, the keyword extractor analyze_keywords and  *)
(* the main flow of the script, as a state machine.                        *)
(*                                                                         *)
(* Numbers.  A cell or a computed change is a record [t, n, d]:            *)
(*   t = "num"  the rational n/d (d > 0), arithmetic is exact;             *)
(*   t = "nan"  a missing value (pandas reads an empty cell as NaN):       *)
(*              truthy, absorbing in arithmetic, every comparison False;   *)
(*   t = "str"  a non-numeric cell (text): truthy, arithmetic raises;      *)
(*   t = "raise" the result of an expression that raised an exception.     *)
(* Binary floating point rounding is not modelled: a change is the exact   *)
(* quotient, so the comparisons of the classifier are those of the exact   *)
(* values.                                                                 *)
(*                                                                         *)
(* The script is taken as it runs on an interpreter that accepts the       *)
(* backslash inside the f-string expression of line 140 (Python 3.12 on).  *)
(* st.stop() ends the run: the exception it raises is not an Exception,    *)
(* so the except clause of line 157 does not catch it.                     *)
(***************************************************************************)
EXTENDS Integers, Sequences, FiniteSets, TLC

VARIABLES
    pc,             \* position in the script / in the function under way
    level,          \* the selectbox value, passed as level_col
    cpa_threshold,  \* slider value
    ctr_threshold,  \* slider value
    curr_df,        \* current-period DataFrame  [cols, rows]
    prev_df,        \* previous-period DataFrame [cols, rows]
    merged,         \* calculate_changes: the merged DataFrame
    i,              \* calculate_changes: index of the next row of the loop
    cpa_change,     \* calculate_changes: local
    ctr_change,     \* calculate_changes: local
    spend_change,   \* calculate_changes: local
    alerts,         \* calculate_changes: list of alert dicts
    movers,         \* calculate_changes: list of mover dicts
    alert_df,       \* result of calculate_changes
    top_movers_df,  \* result of calculate_changes
    keyword_data,   \* analyze_keywords: filtered and sorted rows
    keyword_summary,\* result of analyze_keywords, as its sequence of lines
    llm_calls,      \* number of calls of openai.ChatCompletion.create
    screen          \* what streamlit was handed, in order

vars == <<pc, level, cpa_threshold, ctr_threshold, curr_df, prev_df, merged, i,
          cpa_change, ctr_change, spend_change, alerts, movers, alert_df,
          top_movers_df, keyword_data, keyword_summary, llm_calls, screen>>

(***************************************************************************)
(* Values and their arithmetic                                             *)
(***************************************************************************)
Num(k) == [t |-> "num", n |-> k, d |-> 1]
Rat(a, b) == [t |-> "num", n |-> a, d |-> b]
NaN == [t |-> "nan", n |-> 0, d |-> 1]
Str == [t |-> "str", n |-> 0, d |-> 1]
Raise == [t |-> "raise", n |-> 0, d |-> 1]
Unbound == [t |-> "unbound", n |-> 0, d |-> 1]

IsNum(v) == v.t = "num"
IsNaN(v) == v.t = "nan"

AbsInt(k) == IF k < 0 THEN -k ELSE k

\* Python truthiness of a cell: 0 is falsy; NaN and non-empty text are truthy.
Truthy(v) == IF IsNum(v) THEN v.n # 0 ELSE TRUE

\* a - b
Sub(a, b) ==
    IF a.t \in {"str", "raise"} \/ b.t \in {"str", "raise"} THEN Raise
    ELSE IF IsNaN(a) \/ IsNaN(b) THEN NaN
    ELSE Rat(a.n * b.d - b.n * a.d, a.d * b.d)

\* a / b, b not zero
Div(a, b) ==
    IF a.t \in {"str", "raise"} \/ b.t \in {"str", "raise"} THEN Raise
    ELSE IF IsNaN(a) \/ IsNaN(b) THEN NaN
    ELSE IF b.n > 0 THEN Rat(a.n * b.d, a.d * b.n)
    ELSE Rat(-(a.n * b.d), a.d * (-b.n))

\* a * k, k an integer literal
MulInt(a, k) ==
    IF a.t \in {"str", "raise"} THEN Raise
    ELSE IF IsNaN(a) THEN NaN
    ELSE Rat(a.n * k, a.d)

\* abs(a)
Abs(a) == IF IsNum(a) THEN Rat(AbsInt(a.n), a.d) ELSE a

\* a < p/q, a >= p/q, a > p/q (q > 0): False when a is NaN
Lt(a, p, q) == IsNum(a) /\ a.n * q < p * a.d
Ge(a, p, q) == IsNum(a) /\ a.n * q >= p * a.d
Gt(a, p, q) == IsNum(a) /\ a.n * q > p * a.d

\* round(a, 2): the nearest multiple of 1/100, ties to even; NaN stays NaN
Round2(a) ==
    IF ~IsNum(a) THEN a
    ELSE LET q == (100 * a.n) \div a.d
             r == (100 * a.n) % a.d
         IN  Rat(IF 2 * r < a.d THEN q
                 ELSE IF 2 * r > a.d THEN q + 1
                 ELSE IF q % 2 = 0 THEN q ELSE q + 1, 100)

(***************************************************************************)
(* calculate_changes                                                       *)
(***************************************************************************)
\* ((curr - prev) / prev) * 100 if prev else 0
ChangeNoGuard(curr, prev) ==
    IF IsNum(prev) /\ prev.n = 0 THEN NaN
    ELSE MulInt(Div(Sub(curr, prev), prev), 100)

Change(curr, prev) ==
    IF Truthy(prev) THEN MulInt(Div(Sub(curr, prev), prev), 100) ELSE Num(0)

\* abs(spend_change - cpa_change) < 5 and abs(spend_change - ctr_change) < 5
SuppressedInclusive(cpa, ctr, spend) ==
    /\ ~Gt(Abs(Sub(spend, cpa)), 5, 1) /\ IsNum(Sub(spend, cpa))
    /\ ~Gt(Abs(Sub(spend, ctr)), 5, 1) /\ IsNum(Sub(spend, ctr))

Suppressed(cpa, ctr, spend) ==
    /\ Lt(Abs(Sub(spend, cpa)), 5, 1)
    /\ Lt(Abs(Sub(spend, ctr)), 5, 1)

\* abs(cpa_change) >= cpa_threshold or abs(ctr_change) >= ctr_threshold
AlertCond(cpa, ctr, cthr, tthr) ==
    Ge(Abs(cpa), cthr, 1) \/ Ge(Abs(ctr), tthr, 1)

\* abs(cpa_change) > 0.2 or abs(ctr_change) > 0.2
MoverCondBoth(cpa, ctr) == Gt(Abs(cpa), 1, 5) /\ Gt(Abs(ctr), 1, 5)

MoverCond(cpa, ctr) == Gt(Abs(cpa), 1, 5) \/ Gt(Abs(ctr), 1, 5)

\* The order of a descending sort_values: a >= b, NaN placed last.
GeVal(a, b) ==
    IF IsNaN(b) THEN TRUE
    ELSE IF IsNaN(a) THEN FALSE
    ELSE a.n * b.d >= b.n * a.d

\* sort_values(ascending=False): the positions of keys in descending order of
\* key; equal keys keep their order (what the sort does on these short lists).
RECURSIVE InsertDesc(_, _, _)
InsertDesc(keys, s, x) ==
    IF s = <<>> THEN <<x>>
    ELSE IF GeVal(keys[Head(s)], keys[x])
         THEN <<Head(s)>> \o InsertDesc(keys, Tail(s), x)
         ELSE <<x>> \o s

RECURSIVE OrderUpTo(_, _)
OrderUpTo(keys, k) ==
    IF k = 0 THEN <<>> ELSE InsertDesc(keys, OrderUpTo(keys, k - 1), k)

OrderDesc(keys) == OrderUpTo(keys, Len(keys))

\* df.head(n), df.tail(n)
HeadN(s, n) == SubSeq(s, 1, IF Len(s) < n THEN Len(s) ELSE n)
TailN(s, n) == SubSeq(s, IF Len(s) < n THEN 1 ELSE Len(s) - n + 1, Len(s))

\* A dict literal is filled key by key: a key given twice keeps the last value.
Put(dict, k, v) == [x \in (DOMAIN dict) \cup {k} |-> IF x = k THEN v ELSE dict[x]]

\* row[name]; a missing label raises KeyError
Get(row, name) == IF name \in DOMAIN row THEN row[name] ELSE Raise

\* pd.merge(curr_df, prev_df, on=level_col, suffixes=("_curr", "_prev")):
\* the columns of the result
Shared(ccols, pcols, on) == (ccols \cap pcols) \ {on}

MergedCols(ccols, pcols, on) ==
    {on} \cup {c \o "_curr" : c \in Shared(ccols, pcols, on)}
         \cup {c \o "_prev" : c \in Shared(ccols, pcols, on)}
         \cup ((ccols \ pcols) \ {on}) \cup ((pcols \ ccols) \ {on})

\* one row of the result, from a current row and a previous row of equal key
MergedRow(cr, pr, ccols, pcols, on) ==
    [m \in MergedCols(ccols, pcols, on) |->
        IF m = on THEN cr[on]
        ELSE IF \E c \in Shared(ccols, pcols, on) : m = c \o "_curr"
             THEN cr[CHOOSE c \in Shared(ccols, pcols, on) : m = c \o "_curr"]
        ELSE IF \E c \in Shared(ccols, pcols, on) : m = c \o "_prev"
             THEN pr[CHOOSE c \in Shared(ccols, pcols, on) : m = c \o "_prev"]
        ELSE IF m \in ccols THEN cr[m] ELSE pr[m]]

\* the rows of the inner join: every current x previous pair of equal key, in
\* the order of the current rows
RECURSIVE MergeRows(_, _, _, _)
MergeRows(cdf, pdf, on, k) ==
    IF Len(pdf.rows) = 0 \/ k > Len(cdf.rows) * Len(pdf.rows) THEN <<>>
    ELSE LET a == ((k - 1) \div Len(pdf.rows)) + 1
             b == ((k - 1) % Len(pdf.rows)) + 1
         IN  (IF cdf.rows[a][on] = pdf.rows[b][on]
              THEN <<MergedRow(cdf.rows[a], pdf.rows[b], cdf.cols, pdf.cols, on)>>
              ELSE <<>>) \o MergeRows(cdf, pdf, on, k + 1)

Merge(cdf, pdf, on) ==
    [cols |-> MergedCols(cdf.cols, pdf.cols, on), rows |-> MergeRows(cdf, pdf, on, 1)]

\* the alert dict of lines 56-62
AlertDict(row, level_col, cpa, ctr, spend) ==
    Put(Put(Put(Put(Put(<<>>,
        level_col, row[level_col]),
        "Campaign", IF "Campaign_curr" \in DOMAIN row THEN row["Campaign_curr"] ELSE ""),
        "CPA Change (%)", Round2(cpa)),
        "CTR Change (%)", Round2(ctr)),
        "Spend Change (%)", Round2(spend))

\* the mover dict of lines 65-69
MoverDict(row, level_col, cpa, ctr) ==
    Put(Put(Put(<<>>,
        level_col, row[level_col]),
        "CPA Change (%)", Round2(cpa)),
        "CTR Change (%)", Round2(ctr))

\* the three changes of a row, in the order the code computes them
RowCpa(row) == Change(Get(row, "CPA_curr"), Get(row, "CPA_prev"))
RowCtr(row) == Change(Get(row, "CTR_curr"), Get(row, "CTR_prev"))
RowSpend(row) == Change(Get(row, "Cost_curr"), Get(row, "Cost_prev"))

\* the row raised inside the try block: it is skipped
RowRaises(row) ==
    RowCpa(row) = Raise \/ RowCtr(row) = Raise \/ RowSpend(row) = Raise

\* what one pass of the loop body appends to alerts and to movers
RowAlerts(row, level_col, cthr, tthr) ==
    IF RowRaises(row) \/ Suppressed(RowCpa(row), RowCtr(row), RowSpend(row)) THEN <<>>
    ELSE IF AlertCond(RowCpa(row), RowCtr(row), cthr, tthr)
         THEN <<AlertDict(row, level_col, RowCpa(row), RowCtr(row), RowSpend(row))>>
         ELSE <<>>

RowMovers(row, level_col) ==
    IF RowRaises(row) \/ Suppressed(RowCpa(row), RowCtr(row), RowSpend(row)) THEN <<>>
    ELSE IF MoverCond(RowCpa(row), RowCtr(row))
         THEN <<MoverDict(row, level_col, RowCpa(row), RowCtr(row))>>
         ELSE <<>>

\* movers_df.sort_values(by="CPA Change (%)", key=abs, ascending=False).head(5)
AbsKeys(ms) == [k \in 1..Len(ms) |-> Abs(ms[k]["CPA Change (%)"])]
SignedKeys(ms) == [k \in 1..Len(ms) |-> ms[k]["CPA Change (%)"]]

SortMoversSigned(ms) == [k \in 1..Len(ms) |-> ms[OrderDesc(SignedKeys(ms))[k]]]

SortMovers(ms) == [k \in 1..Len(ms) |-> ms[OrderDesc(AbsKeys(ms))[k]]]

TopMovers(ms) == IF Len(ms) > 0 THEN HeadN(SortMovers(ms), 5) ELSE <<>>

\* line 43-44
DoMerge ==
    /\ pc = "merge"
    /\ merged' = Merge(curr_df, prev_df, level)
    /\ alerts' = <<>>
    /\ movers' = <<>>
    /\ i' = 1
    /\ pc' = "loop"
    /\ UNCHANGED <<level, cpa_threshold, ctr_threshold, curr_df, prev_df,
                   cpa_change, ctr_change, spend_change, alert_df, top_movers_df,
                   keyword_data, keyword_summary, llm_calls, screen>>

\* lines 46-71: one pass of the loop
ProcessRow ==
    /\ pc = "loop"
    /\ i <= Len(merged.rows)
    /\ LET row == merged.rows[i] IN
        /\ cpa_change' = IF RowCpa(row) = Raise THEN cpa_change ELSE RowCpa(row)
        /\ ctr_change' = IF RowCpa(row) = Raise \/ RowCtr(row) = Raise
                         THEN ctr_change ELSE RowCtr(row)
        /\ spend_change' = IF RowRaises(row) THEN spend_change ELSE RowSpend(row)
        /\ alerts' = alerts \o RowAlerts(row, level, cpa_threshold, ctr_threshold)
        /\ movers' = movers \o RowMovers(row, level)
    /\ i' = i + 1
    /\ UNCHANGED <<pc, level, cpa_threshold, ctr_threshold, curr_df, prev_df, merged,
                   alert_df, top_movers_df, keyword_data, keyword_summary,
                   llm_calls, screen>>

\* lines 73-79: the loop is over; build the two results and return
Rank ==
    /\ pc = "loop"
    /\ i > Len(merged.rows)
    /\ alert_df' = alerts
    /\ top_movers_df' = TopMovers(movers)
    /\ pc' = "display"
    /\ UNCHANGED <<level, cpa_threshold, ctr_threshold, curr_df, prev_df, merged, i,
                   cpa_change, ctr_change, spend_change, alerts, movers,
                   keyword_data, keyword_summary, llm_calls, screen>>

(***************************************************************************)
(* analyze_keywords                                                        *)
(***************************************************************************)
\* df["Impressions"] >= 100, row by row (False for a missing value)
QualifiesStrict(imp) == Gt(imp, 100, 1)

Qualifies(imp) == Ge(imp, 100, 1)

RECURSIVE FilterRows(_, _)
FilterRows(rows, k) ==
    IF k > Len(rows) THEN <<>>
    ELSE (IF Qualifies(rows[k]["Impressions"]) THEN <<rows[k]>> ELSE <<>>)
         \o FilterRows(rows, k + 1)

\* keyword_data.sort_values(by="Conversions", ascending=False)
SortByConversions(rows) ==
    [k \in 1..Len(rows) |->
        rows[OrderDesc([j \in 1..Len(rows) |-> rows[j]["Conversions"]])[k]]]

KeywordsOf(rows) == [k \in 1..Len(rows) |-> rows[k]["Keyword"]]

\* lines 86-96: the lines joined by "\n" (the empty string has no line)
Insights(kd) ==
    IF Len(kd) = 0 THEN <<>>
    ELSE <<"Top performing keywords:">> \o KeywordsOf(HeadN(kd, 5))
         \o <<"Lowest performing keywords:">> \o KeywordsOf(TailN(kd, 5))

(***************************************************************************)
(* The script: lines 98-158                                                *)
(***************************************************************************)
\* what streamlit is handed: a kind, a text and (for a table) the rows
Shown(kind, text) == [kind |-> kind, text |-> text, data |-> <<>>]
Table(rows) == [kind |-> "dataframe", text |-> "", data |-> rows]

\* except Exception as e: st.error(f"Failed to process the files: {e}")
Failed(scr) == Append(scr, Shown("error", "Failed to process the files"))

\* lines 103-107: the first required column missing from either dataset, or ""
Required(lvl) == <<"CPA", "CTR", "Cost", "Conversions", "Impressions", lvl>>

MissingCurrOnly(req, ccols, pcols) ==
    {k \in 1..Len(req) : req[k] \notin ccols}

Missing(req, ccols, pcols) ==
    {k \in 1..Len(req) : req[k] \notin ccols \/ req[k] \notin pcols}

FirstMissing(req, ccols, pcols) ==
    IF Missing(req, ccols, pcols) = {} THEN ""
    ELSE req[CHOOSE k \in Missing(req, ccols, pcols) :
                \A j \in Missing(req, ccols, pcols) : k <= j]

\* df[df["Campaign"] == campaign_filter]
RECURSIVE FilterCampaign(_, _, _)
FilterCampaign(rows, camp, k) ==
    IF k > Len(rows) THEN <<>>
    ELSE (IF rows[k]["Campaign"] = camp THEN <<rows[k]>> ELSE <<>>)
         \o FilterCampaign(rows, camp, k + 1)

\* line 120: which branch the results take
NoAlertsNorMovers(adf, tdf) == Len(adf) = 0 /\ Len(tdf) = 0

NoAlerts(adf, tdf) == Len(adf) = 0

\* lines 123-128: what is displayed when there are alerts
ResultsShownHeadersOnly(adf, tdf) ==
    <<Shown("subheader", "Flagged Changes")>>
    \o (IF Len(tdf) > 0 THEN <<Shown("subheader", "Top Movers")>> ELSE <<>>)

ResultsShown(adf, tdf) ==
    <<Shown("subheader", "Flagged Changes"), Table(adf)>>
    \o (IF Len(tdf) > 0 THEN <<Shown("subheader", "Top Movers"), Table(tdf)>> ELSE <<>>)

\* lines 98-101: both files uploaded or not; read_csv may raise
ReadCsv ==
    /\ pc = "read"
    /\ \E outcome \in {"no files", "read", "raised"} :
         /\ pc' = IF outcome = "read" THEN "validate" ELSE "done"
         /\ screen' = IF outcome = "raised" THEN Failed(screen) ELSE screen
    /\ UNCHANGED <<level, cpa_threshold, ctr_threshold, curr_df, prev_df, merged, i,
                   cpa_change, ctr_change, spend_change, alerts, movers, alert_df,
                   top_movers_df, keyword_data, keyword_summary, llm_calls>>

\* lines 103-107: st.error and st.stop() on the first missing column
ValidateColumns ==
    /\ pc = "validate"
    /\ LET col == FirstMissing(Required(level), curr_df.cols, prev_df.cols) IN
         IF col # ""
         THEN /\ screen' = Append(screen, Shown("error", "Missing required column: " \o col))
              /\ pc' = "stopped"
         ELSE /\ screen' = screen
              /\ pc' = "filter"
    /\ UNCHANGED <<level, cpa_threshold, ctr_threshold, curr_df, prev_df, merged, i,
                   cpa_change, ctr_change, spend_change, alerts, movers, alert_df,
                   top_movers_df, keyword_data, keyword_summary, llm_calls>>

\* lines 109-116: the optional campaign filter; prev_df["Campaign"] raises
\* KeyError when the previous dataset has no such column
CampaignFilter ==
    /\ pc = "filter"
    /\ IF "Campaign" \notin curr_df.cols
       THEN /\ screen' = Append(screen, Shown("subheader", "Select Campaign (Optional)"))
            /\ pc' = "merge"
            /\ UNCHANGED <<curr_df, prev_df>>
       ELSE \E campaign_filter \in
                {"All Campaigns"} \cup {curr_df.rows[k]["Campaign"] : k \in 1..Len(curr_df.rows)} :
              IF campaign_filter = "All Campaigns"
              THEN /\ screen' = Append(screen, Shown("subheader", "Select Campaign (Optional)"))
                   /\ pc' = "merge"
                   /\ UNCHANGED <<curr_df, prev_df>>
              ELSE /\ curr_df' = [curr_df EXCEPT !.rows = FilterCampaign(@, campaign_filter, 1)]
                   /\ IF "Campaign" \in prev_df.cols
                      THEN /\ prev_df' = [prev_df EXCEPT
                                             !.rows = FilterCampaign(@, campaign_filter, 1)]
                           /\ screen' = Append(screen,
                                               Shown("subheader", "Select Campaign (Optional)"))
                           /\ pc' = "merge"
                      ELSE /\ prev_df' = prev_df
                           /\ screen' = Failed(Append(screen,
                                               Shown("subheader", "Select Campaign (Optional)")))
                           /\ pc' = "done"
    /\ UNCHANGED <<level, cpa_threshold, ctr_threshold, merged, i,
                   cpa_change, ctr_change, spend_change, alerts, movers, alert_df,
                   top_movers_df, keyword_data, keyword_summary, llm_calls>>

\* lines 120-130: the success message, or the tables
Display ==
    /\ pc = "display"
    /\ IF NoAlerts(alert_df, top_movers_df)
       THEN /\ screen' = Append(screen, Shown("success",
                            "No statistically significant or unexpected changes detected."))
            /\ pc' = "done"
       ELSE /\ screen' = screen \o ResultsShown(alert_df, top_movers_df)
            /\ pc' = "keywords"
    /\ UNCHANGED <<level, cpa_threshold, ctr_threshold, curr_df, prev_df, merged, i,
                   cpa_change, ctr_change, spend_change, alerts, movers, alert_df,
                   top_movers_df, keyword_data, keyword_summary, llm_calls>>

\* line 131 and lines 81-96: analyze_keywords(curr_df)
AnalyzeKeywords ==
    /\ pc = "keywords"
    /\ IF "Keyword" \notin curr_df.cols
       THEN /\ keyword_summary' = <<>>
            /\ keyword_data' = keyword_data
       ELSE /\ keyword_data' = SortByConversions(FilterRows(curr_df.rows, 1))
            /\ keyword_summary' = Insights(keyword_data')
    /\ pc' = "llm"
    /\ UNCHANGED <<level, cpa_threshold, ctr_threshold, curr_df, prev_df, merged, i,
                   cpa_change, ctr_change, spend_change, alerts, movers, alert_df,
                   top_movers_df, llm_calls, screen>>

\* lines 148-158: one call of the language model; it answers or it raises
CallLLM ==
    /\ pc = "llm"
    /\ llm_calls' = llm_calls + 1
    /\ \E answered \in BOOLEAN :
         screen' = IF answered
                   THEN screen \o <<Shown("subheader", "GPT Suggestions"),
                                    Shown("write", "response")>>
                   ELSE Failed(screen)
    /\ pc' = "done"
    /\ UNCHANGED <<level, cpa_threshold, ctr_threshold, curr_df, prev_df, merged, i,
                   cpa_change, ctr_change, spend_change, alerts, movers, alert_df,
                   top_movers_df, keyword_data, keyword_summary>>

(***************************************************************************)
(* Inputs                                                                  *)
(***************************************************************************)
AllCols == {"Campaign", "Ad Group", "CPA", "CTR", "Cost", "Conversions",
            "Impressions", "Keyword"}

MkRow(ag, camp, cpa, ctr, cost, conv, imp, kw) ==
    [c \in AllCols |->
        CASE c = "Ad Group" -> ag
          [] c = "Campaign" -> camp
          [] c = "CPA" -> cpa
          [] c = "CTR" -> ctr
          [] c = "Cost" -> cost
          [] c = "Conversions" -> conv
          [] c = "Impressions" -> imp
          [] OTHER -> kw]

Restrict(row, cols) == [c \in cols |-> row[c]]

\* a DataFrame with the given columns
DF(cols, rows) == [cols |-> cols, rows |-> [k \in 1..Len(rows) |-> Restrict(rows[k], cols)]]

Levels == {"Ad Group", "Campaign"}

\* the two sliders run from 5 to 100 and start at 15
SliderMin == 5
SliderDefault == 15
ThresholdVals == {SliderMin, SliderDefault}

\* everything but the inputs, as it is before calculate_changes is called
Fresh ==
    /\ merged = [cols |-> {}, rows |-> <<>>]
    /\ i = 0
    /\ cpa_change = Unbound
    /\ ctr_change = Unbound
    /\ spend_change = Unbound
    /\ alerts = <<>>
    /\ movers = <<>>
    /\ alert_df = <<>>
    /\ top_movers_df = <<>>
    /\ keyword_data = <<>>
    /\ keyword_summary = <<>>
    /\ llm_calls = 0
    /\ screen = <<>>

(***************************************************************************)
(* calculate_changes on one paired row, over every combination of numeric, *)
(* zero, missing and non-numeric cells                                     *)
(***************************************************************************)
MaxStep == 3

CurrCells == {Num(100 + 5 * k) : k \in -1..MaxStep} \cup {NaN, Str}
PrevCells == {Num(0), Num(100), NaN, Str}

InitRow ==
    /\ pc = "merge"
    /\ level = "Ad Group"
    /\ cpa_threshold \in ThresholdVals
    /\ ctr_threshold \in ThresholdVals
    /\ \E cpa \in CurrCells, ctr \in CurrCells, cost \in CurrCells :
          curr_df = DF(AllCols, <<MkRow("A", "X", cpa, ctr, cost, Num(1), Num(100), "k1")>>)
    /\ \E cpa \in PrevCells, ctr \in PrevCells, cost \in PrevCells :
          prev_df = DF(AllCols, <<MkRow("A", "X", cpa, ctr, cost, Num(1), Num(100), "k1")>>)
    /\ Fresh

NextCalc == DoMerge \/ ProcessRow \/ Rank

SpecRow == InitRow /\ [][NextCalc]_vars

(***************************************************************************)
(* calculate_changes on datasets of several rows: the inner join pairs     *)
(* every current row with every previous row of the same key               *)
(***************************************************************************)
MaxCurrRows == 2
MaxPrevRows == 3

SeqsUpTo(S, n) == UNION {[1..k -> S] : k \in 0..n}

RankCurrRows ==
    { MkRow("A", "X", Num(40), Num(10), Num(100), Num(1), Num(100), "k1"),
      MkRow("A", "X", Num(100), Num(10), Num(100), Num(1), Num(100), "k1"),
      MkRow("A", "X", Num(130), Num(10), Num(100), Num(1), Num(100), "k1"),
      MkRow("A", "X", NaN, Num(11), Num(100), Num(1), Num(100), "k1"),
      MkRow("B", "X", Num(130), Num(10), Num(100), Num(1), Num(100), "k1") }

RankPrevRows ==
    { MkRow("A", "X", Num(50), Num(10), Num(100), Num(1), Num(100), "k1"),
      MkRow("A", "X", Num(100), Num(10), Num(100), Num(1), Num(100), "k1") }

InitRank ==
    /\ pc = "merge"
    /\ level = "Ad Group"
    /\ cpa_threshold = SliderDefault
    /\ ctr_threshold = SliderDefault
    /\ \E rows \in SeqsUpTo(RankCurrRows, MaxCurrRows) : curr_df = DF(AllCols, rows)
    /\ \E rows \in SeqsUpTo(RankPrevRows, MaxPrevRows) : prev_df = DF(AllCols, rows)
    /\ Fresh

SpecRank == InitRank /\ [][NextCalc]_vars

(***************************************************************************)
(* analyze_keywords on current-period datasets of up to MaxKwRows rows,    *)
(* each row with a keyword of its own                                      *)
(***************************************************************************)
MaxKwRows == 7

KwName(k) ==
    CASE k = 1 -> "k1" [] k = 2 -> "k2" [] k = 3 -> "k3" [] k = 4 -> "k4"
      [] k = 5 -> "k5" [] k = 6 -> "k6" [] k = 7 -> "k7" [] OTHER -> "k8"

\* <<Impressions, Conversions>> of a row
KwCells == {<<99, 3>>, <<100, 1>>, <<250, 2>>}

KwRows(cells) ==
    [k \in 1..Len(cells) |->
        MkRow("A", "X", Num(100), Num(10), Num(100),
              Num(cells[k][2]), Num(cells[k][1]), KwName(k))]

InitKw ==
    /\ pc = "keywords"
    /\ level = "Ad Group"
    /\ cpa_threshold = SliderDefault
    /\ ctr_threshold = SliderDefault
    /\ \E cols \in {AllCols, AllCols \ {"Keyword"}} :
       \E cells \in SeqsUpTo(KwCells, MaxKwRows) :
          curr_df = DF(cols, KwRows(cells))
    /\ prev_df = DF(AllCols, <<>>)
    /\ Fresh

NextKw == AnalyzeKeywords

SpecKw == InitKw /\ [][NextKw]_vars

(***************************************************************************)
(* The whole script, on two small datasets that may each lack a column     *)
(***************************************************************************)
MaxMainRows == 2

MainCurrRows ==
    { MkRow("A", "X", Num(120), Num(10), Num(100), Num(3), Num(100), "k1"),
      MkRow("A", "Y", Num(110), Num(10), Num(100), Num(1), Num(250), "k2"),
      MkRow("B", "X", Num(100), Num(10), Num(100), Num(2), Num(99), "k3") }

MainPrevRows ==
    { MkRow("A", "X", Num(100), Num(10), Num(100), Num(1), Num(100), "k1"),
      MkRow("B", "Y", Num(100), Num(10), Num(100), Num(1), Num(100), "k3") }

\* the column sets of an uploaded file: complete, or one column short
ColumnSets ==
    {AllCols} \cup {AllCols \ {c} : c \in {"Keyword", "Campaign", "Ad Group", "CPA", "Impressions"}}

Init ==
    /\ pc = "read"
    /\ level \in Levels
    /\ cpa_threshold = SliderDefault
    /\ ctr_threshold = SliderDefault
    /\ \E cols \in ColumnSets : \E rows \in SeqsUpTo(MainCurrRows, MaxMainRows) :
          curr_df = DF(cols, rows)
    /\ \E cols \in ColumnSets : \E rows \in SeqsUpTo(MainPrevRows, MaxMainRows) :
          prev_df = DF(cols, rows)
    /\ Fresh

Next ==
    \/ ReadCsv
    \/ ValidateColumns
    \/ CampaignFilter
    \/ DoMerge
    \/ ProcessRow
    \/ Rank
    \/ Display
    \/ AnalyzeKeywords
    \/ CallLLM

Spec == Init /\ [][Next]_vars

(***************************************************************************)
(* Properties of calculate_changes                                         *)
(***************************************************************************)
\* the row the loop is about to process
AtRow == pc = "loop" /\ i <= Len(merged.rows)

\* |x - y| < 5, as the classifier's rule states it
Within5(x, y) == Lt(Abs(Sub(x, y)), 5, 1)

\* C1: a row whose three changes are computed yields an AlertRecord iff it is
\* not suppressed (not both |cpa - spend| < 5 and |ctr - spend| < 5) and
\* |cpa| >= cpa_threshold or |ctr| >= ctr_threshold; at most one per row.
C1_AlertIff ==
    [][(AtRow /\ ~RowRaises(merged.rows[i])) =>
         /\ alerts' = alerts \/ (Len(alerts') = Len(alerts) + 1 /\ SubSeq(alerts', 1, Len(alerts)) = alerts)
         /\ (alerts' # alerts) <=>
              /\ ~(Within5(cpa_change', spend_change') /\ Within5(ctr_change', spend_change'))
              /\ \/ Ge(Abs(cpa_change'), cpa_threshold, 1)
                 \/ Ge(Abs(ctr_change'), ctr_threshold, 1)]_vars

\* C1 witness: a row whose ctr change differs from the spend change by exactly
\* 5 (cpa tracks spend) was processed and produced an alert.
C1_Witness ==
    /\ pc = "loop" /\ i = 2 /\ Len(alerts) = 1
    /\ IsNum(cpa_change) /\ IsNum(ctr_change) /\ IsNum(spend_change)
    /\ Within5(cpa_change, spend_change)
    /\ ~Within5(ctr_change, spend_change)
    /\ ~Gt(Abs(Sub(ctr_change, spend_change)), 5, 1)

\* C2 as stated: every row with |cpa| > 0.2 or |ctr| > 0.2 adds a MoverRecord,
\* suppressed or not.
C2_MoverIndependent ==
    [][(AtRow /\ ~RowRaises(merged.rows[i])
          /\ (Gt(Abs(cpa_change'), 1, 5) \/ Gt(Abs(ctr_change'), 1, 5)))
        => Len(movers') = Len(movers) + 1]_vars

\* C2 amended: a row whose changes are computed adds a MoverRecord iff it is
\* not suppressed and |cpa| > 0.2 or |ctr| > 0.2.
C2_MoverGated ==
    [][(AtRow /\ ~RowRaises(merged.rows[i])) =>
         /\ movers' = movers \/ (Len(movers') = Len(movers) + 1 /\ SubSeq(movers', 1, Len(movers)) = movers)
         /\ (movers' # movers) <=>
              /\ ~(Within5(cpa_change', spend_change') /\ Within5(ctr_change', spend_change'))
              /\ (Gt(Abs(cpa_change'), 1, 5) \/ Gt(Abs(ctr_change'), 1, 5))]_vars

\* C2 witness: a suppressed row with |cpa| > 0.2 was processed and left no mover.
C2_Witness ==
    /\ pc = "loop" /\ i = 2 /\ movers = <<>>
    /\ Within5(cpa_change, spend_change) /\ Within5(ctr_change, spend_change)
    /\ Gt(Abs(cpa_change), 1, 5)

\* a metric cell of the row is missing or non-numeric
BadCell(v) == v.t \in {"nan", "str"}
HasBadCell(row) ==
    \E m \in {"CPA_curr", "CPA_prev", "CTR_curr", "CTR_prev", "Cost_curr", "Cost_prev"} :
        BadCell(row[m])

\* C3 as stated: a row with a missing or non-numeric metric value yields
\* neither an AlertRecord nor a MoverRecord.
C3_BadRowExcluded ==
    [][(AtRow /\ HasBadCell(merged.rows[i])) => (alerts' = alerts /\ movers' = movers)]_vars

\* the change of one metric is what C4 says: 0 when prev is 0, else
\* ((curr - prev) / prev) * 100  (cells are whole numbers here)
ChangeIsRight(curr, prev, change) ==
    /\ (IsNum(prev) /\ prev.n = 0) => (IsNum(change) /\ change.n = 0)
    /\ (IsNum(prev) /\ prev.n # 0 /\ IsNum(curr)) =>
          (IsNum(change) /\ change.n * prev.n = 100 * (curr.n - prev.n) * change.d)

\* C4: for each metric the code gets to, prev = 0 gives a change of exactly 0
\* and any other numeric pair gives ((curr - prev) / prev) * 100.
C4_ZeroPrev ==
    [][AtRow =>
        LET row == merged.rows[i] IN
        /\ RowCpa(row) # Raise =>
              ChangeIsRight(row["CPA_curr"], row["CPA_prev"], cpa_change')
        /\ (RowCpa(row) # Raise /\ RowCtr(row) # Raise) =>
              ChangeIsRight(row["CTR_curr"], row["CTR_prev"], ctr_change')
        /\ ~RowRaises(row) =>
              ChangeIsRight(row["Cost_curr"], row["Cost_prev"], spend_change')]_vars

\* C4 witness: a row with CPA_prev = 0 and CPA_curr = 105 was processed.
C4_Witness ==
    /\ pc = "loop" /\ i = 2
    /\ merged.rows[1]["CPA_prev"] = Num(0) /\ merged.rows[1]["CPA_curr"] = Num(105)
    /\ cpa_change = Num(0)

\* how many times r occurs in the list s
Count(s, r) == Cardinality({k \in 1..Len(s) : s[k] = r})
AbsCpa(r) == Abs(r["CPA Change (%)"])
\* |a| < |b| for two records, False when one is NaN
AbsLess(a, b) ==
    IsNum(AbsCpa(a)) /\ IsNum(AbsCpa(b)) /\ AbsCpa(a).n * AbsCpa(b).d < AbsCpa(b).n * AbsCpa(a).d

\* C5: the returned movers are at most 5, taken from the emitted movers, in
\* descending order of |cpa_change|, and no omitted mover has a larger
\* |cpa_change| than a returned one; no movers gives an empty result.
C5_TopMovers ==
    pc = "display" =>
        /\ Len(top_movers_df) = (IF Len(movers) < 5 THEN Len(movers) ELSE 5)
        /\ \A k \in 1..Len(top_movers_df) :
              Count(top_movers_df, top_movers_df[k]) <= Count(movers, top_movers_df[k])
        /\ \A a, b \in 1..Len(top_movers_df) :
              a < b => ~AbsLess(top_movers_df[a], top_movers_df[b])
        /\ \A m \in 1..Len(movers) :
              Count(top_movers_df, movers[m]) < Count(movers, movers[m]) =>
                 \A k \in 1..Len(top_movers_df) : ~AbsLess(top_movers_df[k], movers[m])

\* C5 witness: six movers, five returned, a negative change among them.
C5_Witness ==
    /\ pc = "display" /\ Len(movers) = 6 /\ Len(top_movers_df) = 5
    /\ \E k \in 1..5 : top_movers_df[k]["CPA Change (%)"].n < 0

\* C9 as stated: an emitted alert carries the grouping key of its row.
C9_AlertKeepsKey ==
    [][(AtRow /\ alerts' # alerts) =>
          alerts'[Len(alerts')][level] = merged.rows[i][level]]_vars

(***************************************************************************)
(* Properties of the script and of analyze_keywords                        *)
(***************************************************************************)
\* a required column is absent from the current or the previous dataset
ColumnAbsent ==
    \E c \in {"CPA", "CTR", "Cost", "Conversions", "Impressions", level} :
        c \notin curr_df.cols \/ c \notin prev_df.cols

OnScreen(entry) == \E k \in 1..Len(screen) : screen[k] = entry

\* C6: with a required column absent the run shows the missing-column error
\* and stops: no campaign filter, no calculate_changes, no analyze_keywords,
\* no language-model call, no alert or mover output.
C6_MissingColumnHalts ==
    /\ ColumnAbsent =>
          /\ pc \in {"read", "validate", "stopped", "done"}
          /\ i = 0 /\ merged.rows = <<>> /\ alerts = <<>> /\ movers = <<>>
          /\ alert_df = <<>> /\ top_movers_df = <<>>
          /\ keyword_data = <<>> /\ keyword_summary = <<>>
          /\ llm_calls = 0
          /\ \A k \in 1..Len(screen) : screen[k].kind = "error"
          /\ pc = "done" => screen \in {<<>>, Failed(<<>>)}
    /\ pc = "stopped" =>
          /\ ColumnAbsent
          /\ Len(screen) = 1
          /\ \E c \in {"CPA", "CTR", "Cost", "Conversions", "Impressions", level} :
                /\ c \notin curr_df.cols \/ c \notin prev_df.cols
                /\ screen[1] = Shown("error", "Missing required column: " \o c)

\* C6 witness: a column absent from the previous dataset only stopped the run.
C6_Witness ==
    /\ pc = "stopped"
    /\ curr_df.cols = AllCols
    /\ "Impressions" \notin prev_df.cols
    /\ Len(curr_df.rows) > 0 /\ Len(prev_df.rows) > 0

\* the number of error messages on the screen
Errors == Cardinality({k \in 1..Len(screen) : screen[k].kind = "error"})

\* C7: when the language-model call is made, and so when it fails, the alert
\* table and the top movers are already on the screen; the failure adds one
\* error message and the call is not repeated.
C7_LLMFailureKeepsResults ==
    /\ pc = "llm" =>
          /\ Len(alert_df) > 0 /\ OnScreen(Table(alert_df))
          /\ Len(top_movers_df) > 0 /\ OnScreen(Table(top_movers_df))
    /\ (pc = "done" /\ llm_calls > 0 /\ screen[Len(screen)].kind = "error") =>
          /\ llm_calls = 1
          /\ Errors = 1
          /\ \E k \in 1..(Len(screen) - 1) : screen[k] = Table(alert_df)
          /\ \E k \in 1..(Len(screen) - 1) : screen[k] = Table(top_movers_df)
          /\ Len(alert_df) > 0 /\ Len(top_movers_df) > 0

\* C7 witness: the call was made once and failed.
C7_Witness ==
    /\ pc = "done" /\ llm_calls = 1
    /\ screen[Len(screen)] = Shown("error", "Failed to process the files")

\* the rows of the current dataset that have Impressions >= 100
QualifyingRows == {k \in 1..Len(curr_df.rows) : Ge(curr_df.rows[k]["Impressions"], 100, 1)}
MinOf(a, b) == IF a < b THEN a ELSE b

\* C8: the keyword lists hold only keywords of rows with Impressions >= 100:
\* the first and the last (at most) 5 of those rows in descending order of
\* Conversions; no Keyword column gives an empty result.
C8_KeywordLists ==
    pc = "llm" =>
        IF "Keyword" \notin curr_df.cols THEN keyword_summary = <<>>
        ELSE LET n == Cardinality(QualifyingRows)
                 m == MinOf(5, n)
             IN  /\ Len(keyword_data) = n
                 /\ \A k \in QualifyingRows :
                       \E j \in 1..n : keyword_data[j] = curr_df.rows[k]
                 /\ \A a, b \in 1..n :
                       a < b => keyword_data[a]["Conversions"].n >= keyword_data[b]["Conversions"].n
                 /\ n = 0 => keyword_summary = <<>>
                 /\ n > 0 =>
                       /\ Len(keyword_summary) = 2 * m + 2
                       /\ keyword_summary[1] = "Top performing keywords:"
                       /\ keyword_summary[m + 2] = "Lowest performing keywords:"
                       /\ \A j \in 1..m :
                             /\ keyword_summary[1 + j] = keyword_data[j]["Keyword"]
                             /\ keyword_summary[m + 2 + j] = keyword_data[n - m + j]["Keyword"]
                       /\ \A j \in (2..(m + 1)) \cup ((m + 3)..(2 * m + 2)) :
                             \A k \in 1..Len(curr_df.rows) :
                                keyword_summary[j] = curr_df.rows[k]["Keyword"] =>
                                   k \in QualifyingRows

\* C8 witness: six qualifying rows and one row under 100 impressions, so the
\* top list and the bottom list differ and overlap.
C8_Witness ==
    /\ pc = "llm" /\ "Keyword" \in curr_df.cols
    /\ Cardinality(QualifyingRows) = 6 /\ Len(curr_df.rows) = 7
    /\ Len(keyword_summary) = 12
    /\ keyword_summary[2] # keyword_summary[8]
    /\ keyword_summary[3] = keyword_summary[8]

\* C10: the movers table, analyze_keywords and the language-model call happen
\* only with a non-empty alert list; with an empty one the run ends on the
\* 'no changes' message, whatever the movers; the model is called at most
\* once, with the alerts already shown.
C10_OnlyWithAlerts ==
    /\ pc \in {"keywords", "llm"} => Len(alert_df) > 0
    /\ pc = "llm" => OnScreen(Table(alert_df))
    /\ llm_calls <= 1
    /\ llm_calls = 1 => (Len(alert_df) > 0 /\ OnScreen(Table(alert_df)))
    /\ OnScreen(Shown("subheader", "Top Movers")) => Len(alert_df) > 0
    /\ (keyword_data # <<>> \/ keyword_summary # <<>>) => Len(alert_df) > 0
    /\ (pc = "done" /\ i >= 1 /\ alert_df = <<>>) =>
          /\ screen[Len(screen)] = Shown("success",
                 "No statistically significant or unexpected changes detected.")
          /\ llm_calls = 0
          /\ \A k \in 1..Len(screen) : screen[k].kind # "dataframe"

\* C10 witness: the run ended on the 'no changes' message with movers found.
C10_Witness ==
    /\ pc = "done" /\ i >= 1 /\ alert_df = <<>> /\ Len(top_movers_df) > 0
    /\ screen[Len(screen)].kind = "success"

====
